---- MODULE Spec2Model ----
(***************************************************************************)
(* Model of slice.UniqueByParallel (src/slice/slice_parallel.go).          *)
(*                                                                         *)
(* One call is modelled as the caller goroutine (resolve, partition,       *)
(* spawn, collect, merge, return), one worker goroutine per chunk, the     *)
(* closer goroutine and the Go runtime's reaction to an unrecovered panic. *)
(* Elements are integers; Go indices are 0-based, TLA+ sequences 1-based,  *)
(* so results[r.index] of the source is results[r.index + 1] here.         *)
(***************************************************************************)
EXTENDS Integers, Sequences, FiniteSets, TLC

VARIABLES
    slice,         \* the caller's input slice
    comparator,    \* the comparator passed by the caller (a name, see Cmp)
    ncpu,          \* runtime.NumCPU()
    requested,     \* the numOfThreads argument as passed by the caller
    numOfThreads,  \* the local numOfThreads (reassigned on lines 18-27)
    chunkSize,     \* line 46
    chunks,        \* line 48-55
    next,          \* loop variable of the spawn loop, line 64
    wg,            \* sync.WaitGroup counter
    resultCh,      \* buffered channel contents, line 61
    chClosed,      \* TRUE once close(resultCh) ran
    wpc,           \* position of each worker goroutine
    closer,        \* position of the closer goroutine, lines 72-75
    results,       \* line 77
    result,        \* line 82, the returned slice
    pc,            \* position of the caller goroutine
    proc,          \* "running" or "crashed" (unrecovered panic in a goroutine)
    outOfOrder,    \* history: some result was received after one of a later chunk
    writes,        \* history: how often each slot of results was assigned (line 79)
    prev           \* outcome of the previous call with the same slice/comparator

vars == <<slice, comparator, ncpu, requested, numOfThreads, chunkSize, chunks,
          next, wg, resultCh, chClosed, wpc, closer, results, result, pc,
          proc, outOfOrder, writes, prev>>

----------------------------------------------------------------------------
(* Bounds *)

MaxLen == 2
MaxVal == 2
MaxCPU == 3

Values == 1..MaxVal

\* Scenario A of the documentation: [1,2,2,3,1,4]
ScenarioA == <<1, 2, 2, 3, 1, 4>>

\* Scenario B of the documentation: ["a","A","b"] as character codes (see Fold)
ScenarioB == <<1, 2, 3>>

\* Scenario C of the documentation: ["a","b","A"] as character codes
ScenarioC == <<1, 3, 2>>

\* four elements: with three workers the chunk size is 2 and two chunks result
UnevenInput == <<1, 2, 3, 1>>

Inputs == (UNION {[1..n -> Values] : n \in 0..MaxLen})
              \cup {ScenarioA, ScenarioB, ScenarioC, UnevenInput}

Requested == (0 - 1)..(MaxLen + 1)

----------------------------------------------------------------------------
(* Comparators.  Elements double as character codes: 1 = "a", 2 = "A",     *)
(* 3 = "b", every other code is its own lower-case form.                   *)

Fold(x) == IF x = 2 THEN 1 ELSE x

Abs(x) == IF x < 0 THEN 0 - x ELSE x

\* a comparator that fails whenever the candidate element is PanicItem
PanicItem == 2

TotalComparators == {"eq", "fold", "never", "less", "near"}

Comparators == TotalComparators \cup {"failing"}

\* does the invocation comparator(item, other) panic
Panics(c, item, other) == c = "failing" /\ item = PanicItem

\* value of comparator(item, other) when it returns
Cmp(c, item, other) ==
    CASE c = "eq"      -> item = other
      [] c = "fold"    -> Fold(item) = Fold(other)
      [] c = "never"   -> FALSE
      [] c = "less"    -> item < other
      [] c = "near"    -> Abs(item - other) <= 1
      [] c = "failing" -> item = other

----------------------------------------------------------------------------
(* Pure parts of UniqueByParallel *)

\* faulty variant: the clamp to runtime.NumCPU() is missing
ResolveThreadsNoCPU(n, len, cpus) ==
    IF n <= 0 THEN 1 ELSE IF n > len THEN len ELSE n

\* lines 18-27
ResolveThreads(n, len, cpus) ==
    LET a == IF n <= 0 THEN 1 ELSE IF n > len THEN len ELSE n
    IN  IF a > cpus THEN cpus ELSE a

\* faulty variant: the chunk size is rounded down
ChunkSizeFloor(len, n) == len \div n

\* line 46 (only evaluated with n # 0)
ChunkSize(len, n) == (len + n - 1) \div n

\* lines 48-55
RECURSIVE ChunkLoop(_, _, _, _)
ChunkLoop(s, size, i, acc) ==
    IF i < Len(s)
    THEN LET end == IF i + size > Len(s) THEN Len(s) ELSE i + size
         IN  ChunkLoop(s, size, i + size, Append(acc, SubSeq(s, i + 1, end)))
    ELSE acc

\* faulty variant: the loop stops before a short last chunk
RECURSIVE ChunkLoopFull(_, _, _, _)
ChunkLoopFull(s, size, i, acc) ==
    IF i < Len(s) /\ i + size <= Len(s)
    THEN ChunkLoopFull(s, size, i + size, Append(acc, SubSeq(s, i + 1, i + size)))
    ELSE acc

MakeChunksDropTail(s, size) == ChunkLoopFull(s, size, 0, <<>>)

\* faulty variant: every chunk but the last ends one element too late
RECURSIVE ChunkLoopOverlap(_, _, _, _)
ChunkLoopOverlap(s, size, i, acc) ==
    IF i < Len(s)
    THEN LET end == IF i + size + 1 > Len(s) THEN Len(s) ELSE i + size + 1
         IN  ChunkLoopOverlap(s, size, i + size, Append(acc, SubSeq(s, i + 1, end)))
    ELSE acc

MakeChunksOverlap(s, size) == ChunkLoopOverlap(s, size, 0, <<>>)

MakeChunks(s, size) == ChunkLoop(s, size, 0, <<>>)

\* faulty variant: the comparator gets the kept element first
RECURSIVE SeenInSwapped(_, _, _, _)
SeenInSwapped(c, item, res, k) ==
    IF k > Len(res) THEN "no"
    ELSE IF Panics(c, res[k], item) THEN "panic"
    ELSE IF Cmp(c, res[k], item) THEN "yes"
    ELSE SeenInSwapped(c, item, res, k + 1)

\* lines 33-38: the inner loop over result; "yes", "no" or "panic"
RECURSIVE SeenIn(_, _, _, _)
SeenIn(c, item, res, k) ==
    IF k > Len(res) THEN "no"
    ELSE IF Panics(c, item, res[k]) THEN "panic"
    ELSE IF Cmp(c, item, res[k]) THEN "yes"
    ELSE SeenIn(c, item, res, k + 1)

\* lines 29-44
RECURSIVE RemoveLoop(_, _, _, _)
RemoveLoop(items, c, i, res) ==
    IF i > Len(items) THEN [ok |-> TRUE, data |-> res]
    ELSE LET seen == SeenIn(c, items[i], res, 1)
         IN  IF seen = "panic" THEN [ok |-> FALSE, data |-> <<>>]
             ELSE IF seen = "no"
                  THEN RemoveLoop(items, c, i + 1, Append(res, items[i]))
                  ELSE RemoveLoop(items, c, i + 1, res)

\* faulty variant: the candidate is compared with the last kept element only
RECURSIVE RemoveLoopAdjacent(_, _, _, _)
RemoveLoopAdjacent(items, c, i, res) ==
    IF i > Len(items) THEN [ok |-> TRUE, data |-> res]
    ELSE LET seen == IF res = <<>> THEN "no"
                     ELSE SeenIn(c, items[i], res, Len(res))
         IN  IF seen = "panic" THEN [ok |-> FALSE, data |-> <<>>]
             ELSE IF seen = "no"
                  THEN RemoveLoopAdjacent(items, c, i + 1, Append(res, items[i]))
                  ELSE RemoveLoopAdjacent(items, c, i + 1, res)

removeDuplicateAdjacent(items, c) == RemoveLoopAdjacent(items, c, 1, <<>>)

removeDuplicate(items, c) == RemoveLoop(items, c, 1, <<>>)

\* faulty variant: result starts as items[:0], so every append on line 40
\* writes into the array the chunk shares with the input
BackingAfterInPlace(backing, offset, kept) ==
    [k \in 1..Len(backing) |->
        IF k > offset /\ k <= offset + Len(kept) THEN kept[k - offset]
        ELSE backing[k]]

\* lines 30 and 40: the input's backing array after removeDuplicate ran on
\* the chunk at offset; result starts nil, so append allocates a new array
\* and the shared one is only read
BackingAfter(backing, offset, kept) == backing

\* faulty variant: results are stored in the order they arrive
StoreResultByArrival(res, r) ==
    LET k == CHOOSE k \in 1..Len(res) :
                 res[k] = <<>> /\ \A j \in 1..(k - 1) : res[j] # <<>>
    IN  [res EXCEPT ![k] = r.data]

\* faulty variant: the slot is counted from the wrong end
StoreResultReversed(res, r) == [res EXCEPT ![Len(res) - r.index] = r.data]

\* line 79
StoreResult(res, r) == [res EXCEPT ![r.index + 1] = r.data]

\* faulty variant: the membership test is missing
MergeItemNoCheck(acc, item) ==
    [seen |-> acc.seen \cup {item}, result |-> Append(acc.result, item)]

\* faulty variant: the merge tests membership with the caller's comparator
MergeItemByComparator(acc, item) ==
    IF \A r \in acc.seen : ~Cmp(comparator, item, r)
    THEN [seen |-> acc.seen \cup {item}, result |-> Append(acc.result, item)]
    ELSE acc

\* lines 87-90
MergeItem(acc, item) ==
    IF item \notin acc.seen
    THEN [seen |-> acc.seen \cup {item}, result |-> Append(acc.result, item)]
    ELSE acc

\* lines 86-91
RECURSIVE MergeChunk(_, _, _)
MergeChunk(acc, chunk, k) ==
    IF k > Len(chunk) THEN acc
    ELSE MergeChunk(MergeItem(acc, chunk[k]), chunk, k + 1)

\* lines 85-93
RECURSIVE MergeLoop(_, _, _)
MergeLoop(acc, res, i) ==
    IF i > Len(res) THEN acc
    ELSE MergeLoop(MergeChunk(acc, res[i], 1), res, i + 1)

\* lines 82-95
MergeResults(res) == MergeLoop([seen |-> {}, result |-> <<>>], res, 1).result

----------------------------------------------------------------------------
(* State machine *)

NoPrev == [requested |-> 0 - 99, kind |-> "none", value |-> <<>>,
           outOfOrder |-> FALSE]

Fresh(s, c, cpus, n, p) ==
    /\ slice = s
    /\ comparator = c
    /\ ncpu = cpus
    /\ requested = n
    /\ numOfThreads = n
    /\ chunkSize = 0
    /\ chunks = <<>>
    /\ next = 0
    /\ wg = 0
    /\ resultCh = <<>>
    /\ chClosed = FALSE
    /\ wpc = <<>>
    /\ closer = "none"
    /\ results = <<>>
    /\ result = <<>>
    /\ pc = "resolve"
    /\ proc = "running"
    /\ outOfOrder = FALSE
    /\ writes = <<>>
    /\ prev = p

Init ==
    \E s \in Inputs, c \in Comparators, cpus \in 1..MaxCPU, n \in Requested :
        Fresh(s, c, cpus, n, NoPrev)

\* lines 18-27
Resolve ==
    /\ proc = "running"
    /\ pc = "resolve"
    /\ numOfThreads' = ResolveThreads(numOfThreads, Len(slice), ncpu)
    /\ pc' = "partition"
    /\ UNCHANGED <<slice, comparator, ncpu, requested, chunkSize, chunks, next,
                   wg, resultCh, chClosed, wpc, closer, results, result, proc,
                   outOfOrder, writes, prev>>

\* lines 46-62; the division on line 46 panics on the caller's goroutine
\* when numOfThreads is 0
Partition ==
    /\ proc = "running"
    /\ pc = "partition"
    /\ IF numOfThreads = 0
       THEN /\ pc' = "panicked"
            /\ UNCHANGED <<chunkSize, chunks, wpc>>
       ELSE /\ chunkSize' = ChunkSize(Len(slice), numOfThreads)
            /\ chunks' = MakeChunks(slice, chunkSize')
            /\ wpc' = [i \in 1..Len(chunks') |-> "none"]
            /\ pc' = "spawn"
    /\ UNCHANGED <<slice, comparator, ncpu, requested, numOfThreads, next, wg,
                   resultCh, chClosed, closer, results, result, proc, outOfOrder, writes, prev>>

\* lines 64-70, one iteration: wg.Add(1); go func(index, chunk)
Spawn ==
    /\ proc = "running"
    /\ pc = "spawn"
    /\ next < Len(chunks)
    /\ wg' = wg + 1
    /\ wpc' = [wpc EXCEPT ![next + 1] = "ready"]
    /\ next' = next + 1
    /\ UNCHANGED <<slice, comparator, ncpu, requested, numOfThreads, chunkSize,
                   chunks, resultCh, chClosed, closer, results, result, pc,
                   proc, outOfOrder, writes, prev>>

\* lines 72-77: the spawn loop is over; go closer; results := make(..., len(chunks))
SpawnCloser ==
    /\ proc = "running"
    /\ pc = "spawn"
    /\ next = Len(chunks)
    /\ closer' = "waiting"
    /\ results' = [i \in 1..Len(chunks) |-> <<>>]
    /\ writes' = [i \in 1..Len(chunks) |-> 0]
    /\ pc' = "collect"
    /\ UNCHANGED <<slice, comparator, ncpu, requested, numOfThreads, chunkSize,
                   chunks, next, wg, resultCh, chClosed, wpc, result, proc,
                   outOfOrder, prev>>

\* line 68: worker index i (0-based) runs removeDuplicate and sends; a
\* comparator panic unwinds the goroutine instead.  The chunk shares the
\* backing array of slice (line 54), at offset i * chunkSize.
WorkerRun(i) ==
    /\ proc = "running"
    /\ wpc[i + 1] = "ready"
    /\ LET r == removeDuplicate(chunks[i + 1], comparator)
       IN  IF r.ok
           THEN /\ Len(resultCh) < numOfThreads
                /\ resultCh' = Append(resultCh, [index |-> i, data |-> r.data])
                /\ wpc' = [wpc EXCEPT ![i + 1] = "sent"]
                /\ slice' = BackingAfter(slice, i * chunkSize, r.data)
           ELSE /\ wpc' = [wpc EXCEPT ![i + 1] = "panicking"]
                /\ UNCHANGED <<resultCh, slice>>
    /\ UNCHANGED <<comparator, ncpu, requested, numOfThreads, chunkSize,
                   chunks, next, wg, chClosed, closer, results, result, pc,
                   proc, outOfOrder, writes, prev>>

\* faulty variant: the worker ends without wg.Done()
WorkerDoneNoSignal(i) ==
    /\ proc = "running"
    /\ wpc[i + 1] \in {"sent", "panicking"}
    /\ wpc' = [wpc EXCEPT ![i + 1] = IF wpc[i + 1] = "sent" THEN "done" ELSE "dead"]
    /\ UNCHANGED <<slice, comparator, ncpu, requested, numOfThreads, chunkSize,
                   chunks, next, wg, resultCh, chClosed, closer, results, result,
                   pc, proc, outOfOrder, writes, prev>>

\* line 67: the deferred wg.Done(), on return or while panicking
WorkerDone(i) ==
    /\ proc = "running"
    /\ wpc[i + 1] \in {"sent", "panicking"}
    /\ wg' = wg - 1
    /\ wpc' = [wpc EXCEPT ![i + 1] = IF wpc[i + 1] = "sent" THEN "done" ELSE "dead"]
    /\ UNCHANGED <<slice, comparator, ncpu, requested, numOfThreads, chunkSize,
                   chunks, next, resultCh, chClosed, closer, results, result,
                   pc, proc, outOfOrder, writes, prev>>

\* line 66-69: nothing recovers the worker's panic, so once its deferred
\* calls ran the Go runtime terminates the process
Crash ==
    /\ proc = "running"
    /\ \E i \in 1..Len(wpc) : wpc[i] = "dead"
    /\ proc' = "crashed"
    /\ UNCHANGED <<slice, comparator, ncpu, requested, numOfThreads, chunkSize,
                   chunks, next, wg, resultCh, chClosed, wpc, closer, results,
                   result, pc, outOfOrder, writes, prev>>

\* lines 73-74
CloserRun ==
    /\ proc = "running"
    /\ closer = "waiting"
    /\ wg = 0
    /\ chClosed' = TRUE
    /\ closer' = "done"
    /\ UNCHANGED <<slice, comparator, ncpu, requested, numOfThreads, chunkSize,
                   chunks, next, wg, resultCh, wpc, results, result, pc, proc,
                   outOfOrder, writes, prev>>

\* a result of a chunk after chunk i has already left the channel
ReceivedAfter(i) ==
    \E j \in (i + 1)..(Len(wpc) - 1) :
        wpc[j + 1] \in {"sent", "done"} /\ \A k \in 1..Len(resultCh) : resultCh[k].index # j

\* lines 78-80, one iteration of the range loop
Receive ==
    /\ proc = "running"
    /\ pc = "collect"
    /\ resultCh # <<>>
    /\ results' = StoreResult(results, Head(resultCh))
    /\ resultCh' = Tail(resultCh)
    /\ outOfOrder' = (outOfOrder \/ ReceivedAfter(Head(resultCh).index))
    /\ writes' = [i \in 1..Len(writes) |->
                     IF results'[i] # results[i] \/ i = Head(resultCh).index + 1
                     THEN writes[i] + 1 ELSE writes[i]]
    /\ UNCHANGED <<slice, comparator, ncpu, requested, numOfThreads, chunkSize,
                   chunks, next, wg, chClosed, wpc, closer, result, pc, proc,
                   prev>>

\* line 78: the channel is closed and drained, the range loop ends
EndReceive ==
    /\ proc = "running"
    /\ pc = "collect"
    /\ resultCh = <<>>
    /\ chClosed
    /\ pc' = "merge"
    /\ UNCHANGED <<slice, comparator, ncpu, requested, numOfThreads, chunkSize,
                   chunks, next, wg, resultCh, chClosed, wpc, closer, results,
                   result, proc, outOfOrder, writes, prev>>

\* lines 82-95
Merge ==
    /\ proc = "running"
    /\ pc = "merge"
    /\ result' = MergeResults(results)
    /\ pc' = "returned"
    /\ UNCHANGED <<slice, comparator, ncpu, requested, numOfThreads, chunkSize,
                   chunks, next, wg, resultCh, chClosed, wpc, closer, results,
                   proc, outOfOrder, writes, prev>>

Next ==
    \/ Resolve
    \/ Partition
    \/ Spawn
    \/ SpawnCloser
    \/ \E i \in 0..(Len(wpc) - 1) : WorkerRun(i)
    \/ \E i \in 0..(Len(wpc) - 1) : WorkerDone(i)
    \/ Crash
    \/ CloserRun
    \/ Receive
    \/ EndReceive
    \/ Merge

Spec == Init /\ [][Next]_vars

\* the Go scheduler does not stop while some goroutine can take a step (and the
\* runtime ends the process once a goroutine died of a panic); nothing is
\* assumed about which runnable goroutine runs next
Fairness == WF_vars(Next)

FairSpec == Init /\ [][Next]_vars /\ Fairness

----------------------------------------------------------------------------
(* Repeated calls: the same slice and comparator, remembering how the      *)
(* previous call ended.                                                    *)

WorkerFailed == \E i \in 1..Len(wpc) : wpc[i] \in {"panicking", "dead"}

\* the call is over: it returned or panicked on the caller's goroutine and
\* no crash is pending, or the process is gone
Finished ==
    \/ proc = "crashed"
    \/ pc \in {"returned", "panicked"} /\ ~WorkerFailed

Outcome ==
    IF proc = "crashed" THEN [kind |-> "crash", value |-> <<>>]
    ELSE IF pc = "panicked" THEN [kind |-> "panic", value |-> <<>>]
    ELSE [kind |-> "returned", value |-> result]

\* the caller repeats the call with the same requested parallelism n, or
\* with one the clamping rules of lines 14 and 18-22 are to treat like m
Comparable(m, n) ==
    \/ n = m
    \/ m = 1 /\ n <= 0
    \/ m = Len(slice) /\ n > Len(slice)

\* line 17, called again (in a new process when the previous one crashed)
CallAgain ==
    /\ Finished
    /\ prev' = [requested |-> requested, kind |-> Outcome.kind,
                value |-> Outcome.value, outOfOrder |-> outOfOrder]
    /\ \E n \in Requested :
         /\ Comparable(requested, n)
         /\ requested' = n
         /\ numOfThreads' = n
    /\ chunkSize' = 0
    /\ chunks' = <<>>
    /\ next' = 0
    /\ wg' = 0
    /\ resultCh' = <<>>
    /\ chClosed' = FALSE
    /\ wpc' = <<>>
    /\ closer' = "none"
    /\ results' = <<>>
    /\ result' = <<>>
    /\ pc' = "resolve"
    /\ proc' = "running"
    /\ outOfOrder' = FALSE
    /\ writes' = <<>>
    /\ UNCHANGED <<slice, comparator, ncpu>>

NextCalls == Next \/ CallAgain

SpecCalls == Init /\ [][NextCalls]_vars

----------------------------------------------------------------------------
(* Reference definitions used by the properties *)

\* s is a subsequence of t (greedy left-to-right matching)
RECURSIVE IsSubSeqFrom(_, _, _, _)
IsSubSeqFrom(s, t, i, j) ==
    IF i > Len(s) THEN TRUE
    ELSE IF j > Len(t) THEN FALSE
    ELSE IF s[i] = t[j] THEN IsSubSeqFrom(s, t, i + 1, j + 1)
    ELSE IsSubSeqFrom(s, t, i, j + 1)

IsSubSeq(s, t) == IsSubSeqFrom(s, t, 1, 1)

NoDuplicates(s) == \A i, j \in 1..Len(s) : i # j => s[i] # s[j]

Count(s, v) == Cardinality({i \in 1..Len(s) : s[i] = v})

Range(s) == {s[i] : i \in 1..Len(s)}

\* the elements of s at the positions in keep, in order
RECURSIVE Pick(_, _, _)
Pick(s, keep, i) ==
    IF i > Len(s) THEN <<>>
    ELSE IF i \in keep THEN <<s[i]>> \o Pick(s, keep, i + 1)
    ELSE Pick(s, keep, i + 1)

\* positions kept by a left-to-right distinct under comparator c: position i
\* is kept iff c(s[i], s[j]) is false for every kept j < i
RECURSIVE KeptUpTo(_, _, _)
KeptUpTo(s, c, n) ==
    IF n = 0 THEN {}
    ELSE LET before == KeptUpTo(s, c, n - 1)
         IN  IF \E j \in before : Cmp(c, s[n], s[j]) THEN before
             ELSE before \cup {n}

ComparatorDistinct(s, c) == Pick(s, KeptUpTo(s, c, Len(s)), 1)

\* first occurrences under default equality
FirstOccurrences(s) ==
    Pick(s, {i \in 1..Len(s) : \A j \in 1..(i - 1) : s[j] # s[i]}, 1)

\* chunk i (0-based) of s for w workers, by the closed formula
RefChunk(s, w, i) ==
    LET size == (Len(s) + w - 1) \div w
        lo   == i * size
        hi   == IF (i + 1) * size < Len(s) THEN (i + 1) * size ELSE Len(s)
    IN  IF lo < hi THEN [k \in 1..(hi - lo) |-> s[lo + k]] ELSE <<>>

RECURSIVE RefConcat(_, _, _, _)
RefConcat(s, w, c, i) ==
    IF i >= w THEN <<>>
    ELSE ComparatorDistinct(RefChunk(s, w, i), c) \o RefConcat(s, w, c, i + 1)

\* per-chunk comparator distinct, concatenation by chunk index, first
\* occurrences under default equality
Reference(s, w, c) == FirstOccurrences(RefConcat(s, w, c, 0))

Returned == proc = "running" /\ pc = "returned" /\ ~WorkerFailed

SameAsPrevious == Outcome.kind = prev.kind /\ Outcome.value = prev.value

----------------------------------------------------------------------------
(* Properties *)

\* C1: with a total comparator, two calls with the same slice, comparator
\* and requested parallelism end the same way and return the same sequence,
\* whatever the interleaving of the workers and the arrival order on the
\* channel was in either call.
C1_Deterministic ==
    (Finished /\ comparator \in TotalComparators /\ prev.kind # "none"
        /\ prev.requested = requested)
    => SameAsPrevious

\* two finished calls with equal arguments, several chunks, one of them
\* received its results out of chunk order and the other one in order
C1_Witness ==
    /\ Returned /\ comparator \in TotalComparators
    /\ prev.kind = "returned" /\ prev.requested = requested
    /\ Len(chunks) >= 2
    /\ outOfOrder /\ ~prev.outOfOrder
    /\ result = prev.value

\* C2: whenever the call has returned, the result is a subsequence of the
\* input (surviving elements keep their input order).
C2_Subsequence == (pc = "returned") => IsSubSeq(result, slice)

C2_Witness ==
    /\ Returned /\ Len(chunks) >= 2 /\ outOfOrder
    /\ Len(result) >= 2 /\ Len(result) < Len(slice)
    /\ IsSubSeq(result, slice)

\* C3: the returned sequence equals the reference value (per-chunk
\* comparator distinct, concatenated in ascending chunk index, then first
\* occurrences under default equality) and holds no two equal elements.
C3_Reference ==
    Returned => /\ result = Reference(slice, numOfThreads, comparator)
                /\ NoDuplicates(result)

\* a cross-chunk duplicate was removed by the merge and an in-chunk one by
\* the comparator
C3_Witness ==
    /\ Returned /\ Len(chunks) >= 2 /\ comparator = "fold"
    /\ \E i \in 1..Len(chunks) : Len(results[i]) < Len(chunks[i])
    /\ Len(result) < Len(results[1]) + Len(results[2])
    /\ result = Reference(slice, numOfThreads, comparator)

\* C4: an empty input never makes the call fail: it returns the empty
\* sequence for every requested parallelism and spawns no worker.
C4_EmptyInput ==
    (slice = <<>>) => /\ pc # "panicked"
                      /\ Len(wpc) = 0
                      /\ (pc = "returned" => result = <<>>)

\* C5: a comparator failure inside a worker reaches the caller as a failure
\* of the call: the process is not brought down from the worker goroutine
\* and the call does not return a result.
C5_FailurePropagates ==
    WorkerFailed => (proc = "running" /\ pc # "returned")

\* C6: a call with requested parallelism <= 0 ends like the call with
\* requested parallelism 1 on the same slice and comparator.
C6_NonPositiveLikeOne ==
    (Finished /\ requested <= 0 /\ prev.requested = 1) => SameAsPrevious

\* C7: a call with requested parallelism > len(slice) ends like the call
\* with requested parallelism len(slice) on the same slice and comparator.
C7_ClampToLength ==
    (Finished /\ requested > Len(slice) /\ prev.requested = Len(slice))
    => SameAsPrevious

\* C8 as stated: with one effective worker the result is the comparator
\* distinct of the whole input, for every total comparator.
C8_SingleChunkAnyComparator ==
    (Returned /\ numOfThreads = 1 /\ comparator \in TotalComparators)
    => result = ComparatorDistinct(slice, comparator)

\* the comparator reports every element of the slice equal to itself
ReflexiveOn(c, s) == \A x \in Range(s) : Cmp(c, x, x)

\* C8 amended: with one effective worker the result is the comparator
\* distinct of the whole input, for every comparator that reports each
\* element equal to itself (it may still be coarser than default equality
\* or not transitive).
C8_SingleChunkReflexive ==
    (Returned /\ numOfThreads = 1 /\ ReflexiveOn(comparator, slice))
    => result = ComparatorDistinct(slice, comparator)

\* one chunk, a comparator coarser than equality collapsed two unequal
\* elements
C8_Witness ==
    /\ Returned /\ numOfThreads = 1 /\ Len(chunks) = 1
    /\ comparator \in {"fold", "near"}
    /\ Len(result) < Cardinality(Range(slice))
    /\ result = ComparatorDistinct(slice, comparator)

\* C9: the merge drops an element only for a default-equal one emitted
\* before: every value of some chunk result is exactly once in the result,
\* the result holds nothing else, and Scenario C keeps all three elements.
C9_MergeByEquality ==
    (pc = "returned") =>
        /\ \A i \in 1..Len(results) : \A v \in Range(results[i]) :
               Count(result, v) = 1
        /\ \A v \in Range(result) : \E i \in 1..Len(results) :
               v \in Range(results[i])
        /\ (slice = ScenarioC /\ numOfThreads = 2 /\ comparator = "fold")
               => result = ScenarioC

C9_Witness ==
    /\ Returned /\ slice = ScenarioC /\ numOfThreads = 2
    /\ comparator = "fold" /\ result = <<1, 3, 2>>
    /\ Cmp(comparator, result[3], result[1])

\* C10: with default equality as comparator and a non-empty input the
\* result is the sequential first-occurrence distinct of the input, for
\* every effective worker count.
C10_EqualityLikeSequential ==
    (Returned /\ comparator = "eq" /\ slice # <<>>)
    => result = FirstOccurrences(slice)

C10_Witness ==
    /\ Returned /\ comparator = "eq" /\ slice = ScenarioA
    /\ numOfThreads = 2 /\ result = <<1, 2, 3, 4>>

----------------------------------------------------------------------------
(* Reference definitions for the dispatcher and partitioner properties *)

\* the least q with q * b >= a, for a >= 0 and b >= 1
CeilDiv(a, b) == CHOOSE q \in 0..a : q * b >= a /\ (q = 0 \/ (q - 1) * b < a)

RECURSIVE Concat(_, _)
Concat(ss, i) == IF i > Len(ss) THEN <<>> ELSE ss[i] \o Concat(ss, i + 1)

RECURSIVE SumUpTo(_, _)
SumUpTo(ns, n) == IF n = 0 THEN 0 ELSE ns[n] + SumUpTo(ns, n - 1)

\* 0-based start index of chunk i (1-based) in the input
RECURSIVE StartOf(_)
StartOf(i) == IF i = 1 THEN 0 ELSE StartOf(i - 1) + Len(chunks[i - 1])

\* worker goroutines that were started
Spawned == Cardinality({i \in 1..Len(wpc) : wpc[i] # "none"})

\* worker goroutines that exist and have not ended
Alive == Cardinality({i \in 1..Len(wpc) : wpc[i] \in {"ready", "sent", "panicking"}})

\* workers whose removeDuplicate returned and whose pair was sent
Senders == {i \in 1..Len(wpc) : wpc[i] \in {"sent", "done"}}

\* (index, data) pairs the collector took from the channel
Received == SumUpTo(writes, Len(writes))

Partitioned == pc \notin {"resolve", "partition", "panicked"}

PastBarrier == pc \in {"merge", "returned"}

\* data is what is left of chunk when an element is kept iff the comparator,
\* called with the element first, matches none of the elements kept before it
IsDistinctOf(data, chunk, c) ==
    \E keep \in SUBSET (1..Len(chunk)) :
        /\ Pick(chunk, keep, 1) = data
        /\ \A p \in 1..Len(chunk) :
               p \in keep <=> \A q \in keep : q < p => ~Cmp(c, chunk[p], chunk[q])

\* every chunk result produced so far, with the chunk it came from
Produced ==
    {<<resultCh[k].index + 1, resultCh[k].data>> : k \in 1..Len(resultCh)}
        \cup {<<i, results[i]>> : i \in {j \in 1..Len(writes) : writes[j] > 0}}

----------------------------------------------------------------------------
(* Properties of the dispatcher, the partitioner and the workers *)

\* C11: once the collector has left the receive loop, every spawned worker
\* has completed normally and its chunk result is stored in its slot of
\* results (no slot is unset).
C11_MergeAfterBarrier ==
    PastBarrier =>
        \A i \in 1..Len(chunks) :
            wpc[i] = "done" /\ Len(results) = Len(chunks) /\ results[i] # <<>>

C13_Partition ==
    (slice # <<>> /\ Partitioned) =>
        /\ Concat(chunks, 1) = slice
        /\ \A i \in 1..Len(chunks) :
               /\ chunks[i] # <<>>
               /\ Len(chunks[i]) <= CeilDiv(Len(slice), numOfThreads)
               /\ i < Len(chunks) =>
                      Len(chunks[i]) = CeilDiv(Len(slice), numOfThreads)
               /\ StartOf(i) = (i - 1) * CeilDiv(Len(slice), numOfThreads)
               /\ \A k \in 1..Len(chunks[i]) :
                      chunks[i][k] = slice[StartOf(i) + k]

\* a partition whose last chunk is shorter than the others
C13_Witness ==
    /\ Partitioned /\ Len(slice) = 3 /\ numOfThreads = 2
    /\ Len(chunks) = 2 /\ Len(chunks[1]) = 2 /\ Len(chunks[2]) = 1
    /\ chunks[1] \o chunks[2] = slice

\* C14: for a non-empty input the effective worker count is at least 1 and
\* at most min(len, NumCPU); it sizes the chunks and bounds the channel, and
\* never more than that many worker goroutines are alive.
C14_WorkerBound ==
    (slice # <<>> /\ pc # "resolve") =>
        /\ 1 <= numOfThreads
        /\ numOfThreads <= Len(slice) /\ numOfThreads <= ncpu
        /\ Alive <= numOfThreads
        /\ Len(resultCh) <= numOfThreads
        /\ Partitioned => chunkSize * numOfThreads >= Len(slice)

\* more threads requested than cores: as many workers alive as cores
C14_Witness ==
    /\ slice # <<>> /\ requested > ncpu /\ Len(slice) > ncpu /\ ncpu >= 2
    /\ numOfThreads = ncpu /\ Alive = numOfThreads

\* every comparator invocation of this call returns
ComparatorReturns == comparator \in TotalComparators

\* C15: when every comparator invocation returns, a call on a non-empty
\* input returns under every fair schedule; a worker that is ready to send
\* always finds room in the channel, and the channel is closed only after
\* every worker has sent, and only once.
C15_Terminates ==
    /\ (slice # <<>> /\ ComparatorReturns) ~> (pc = "returned")
    /\ [](ComparatorReturns =>
            /\ (\E i \in 1..Len(wpc) : wpc[i] = "ready")
                   => Len(resultCh) < numOfThreads
            /\ chClosed => \A i \in 1..Len(wpc) : wpc[i] = "done")
    /\ [][chClosed => (chClosed' /\ closer' = "done")]_vars

\* a call with several workers returned after the channel was closed
C15_Witness ==
    /\ Returned /\ ComparatorReturns /\ Len(chunks) >= 3
    /\ chClosed /\ closer = "done" /\ wg = 0 /\ Received = Len(chunks)

\* C16: every chunk result is the chunk with an element kept iff
\* comparator(element, r) is false for every r kept before it, in chunk
\* order; so no element of a chunk result is matched against an earlier one.
C16_ChunkDeduplicator ==
    \A pr \in Produced :
        /\ IsDistinctOf(pr[2], chunks[pr[1]], comparator)
        /\ \A a, b \in 1..Len(pr[2]) :
               a < b => ~Cmp(comparator, pr[2][b], pr[2][a])

\* an asymmetric comparator discarded an element: the argument order shows
C16_Witness ==
    /\ comparator = "less"
    /\ \E pr \in Produced :
           /\ Len(pr[2]) < Len(chunks[pr[1]])
           /\ \E p, q \in 1..Len(chunks[pr[1]]) :
                  /\ q < p
                  /\ Cmp(comparator, chunks[pr[1]][p], chunks[pr[1]][q])
                  /\ ~Cmp(comparator, chunks[pr[1]][q], chunks[pr[1]][p])

\* C17: every chunk index gets exactly one chunk result: no slot of results
\* is assigned twice, a pair in the channel carries the index of the worker
\* that sent it, and past the barrier every worker has sent its pair and
\* every slot was assigned exactly once.
C17_OneResultPerChunk ==
    /\ \A i \in 1..Len(writes) : writes[i] <= 1
    /\ \A k \in 1..Len(resultCh) :
           wpc[resultCh[k].index + 1] \in {"sent", "done"}
    /\ PastBarrier =>
           \A i \in 1..Len(chunks) : i \in Senders /\ writes[i] = 1

\* C18: no step of the call changes the caller's input slice.
C18_InputUnchanged == [][slice' = slice]_vars

\* workers that discarded duplicates have run and the call returned
C18_Witness ==
    /\ Returned /\ Len(chunks) >= 2
    /\ \A i \in 1..Len(chunks) : Len(results[i]) < Len(chunks[i])
    /\ Concat(chunks, 1) = slice

====
